---- MODULE Spec2Model ----
(***************************************************************************)
(* Model of the lunnel server (server/server.go): the control-listener     *)
(* dispatcher handleConn with its encryption negotiation, the control      *)
(* session / pipe pool it hands over to, the tunnel registry TunnelMap     *)
(* with its reader/writer lock, the vhost handlers handleHttpConn and      *)
(* handleHttpsConn, and the management query tunnelQuery.                   *)
(*                                                                         *)
(* Every accepted connection runs its handler as its own goroutine; one    *)
(* action of the model is one blocking call of a handler together with     *)
(* the non-blocking code that follows it up to the next blocking call.     *)
(***************************************************************************)
EXTENDS Integers, Sequences, FiniteSets, TLC

(* ---- bounds of the model ---------------------------------------------- *)
NConns == 3          \* connections accepted on the control listeners
NHttp == 2           \* connections accepted on the HTTP listener
MaxCfg == 1          \* largest configured max_idle_pipes / max_streams
MaxTunnels == 1      \* most tunnels one control handshake registers
NHandshake == 1      \* control-listener connections of SpecConn, SpecQuery
NSessions == 2       \* control-listener connections of SpecReg
NLookups == 1        \* HTTP connections of SpecReg
NQueries == 1        \* management queries of SpecReg
NHttps == 1          \* connections accepted on the HTTPS listener
MaxOwned == 2        \* most tunnels one control session of SpecQuery owns

Conns == 1..NConns
HConns == 1..NHttp
Queries == 1..NQueries
SConns == 1..NHttps

(* ---- inputs ----------------------------------------------------------- *)
\* msg.ClientHello.EncryptMode as sent by a client; "xyz" is a mode the
\* server does not know.
Modes == {"none", "tls", "aes", "xyz"}

\* ClientID 0 is an id no control session was ever given.
ClientIDs == 0..NConns

HelloMsgs == [type : {"ClientHello"}, EncryptMode : Modes,
              EnableCompress : BOOLEAN, ClientID : {0}]
PipeMsgs == [type : {"PipeClientHello"}, EncryptMode : {"none"},
             EnableCompress : {FALSE}, ClientID : ClientIDs]
OtherMsgs == [type : {"ServerHello"}, EncryptMode : {"none"},
              EnableCompress : {FALSE}, ClientID : {0}]
Msgs == HelloMsgs \cup PipeMsgs \cup OtherMsgs
NoMsg == [type |-> "nil", EncryptMode |-> "none", EnableCompress |-> FALSE,
          ClientID |-> 0]

Hosts == {"a.example.com", "b.example.com"}
Rewrites == {"", "local.test"}
\* Public addresses a client may ask for (tunnelConfig.PublicAddr()).
Addrs == {"http://a.example.com:80", "http://a.example.com:443",
          "https://a.example.com:443"}

NoPipe == [ctl |-> 0, state |-> "none", streams |-> 0]
NoTunnel == [ctl |-> 0, HttpHostRewrite |-> "", addr |-> ""]

VARIABLES
  serverConf,      \* the loaded configuration
  maxIdlePipes,    \* parsed from serverConf.MaxIdlePipes
  maxStreams,      \* parsed from serverConf.MaxStreams
  pc,              \* handleConn: where each control-listener goroutine stands
  hello,           \* handleConn: mType and body read by msg.ReadMsg
  connOpen,        \* the raw connection is not closed
  sent,            \* handshake messages written on the raw connection
  underlyingConn,  \* transform layers created over the raw connection
  sess,            \* the smux session of handleConn: none / open / closed
  events,          \* per connection, the calls handleConn has made, in order
  failed,          \* per connection, a stage of handleConn has failed
  ControlMap,      \* ClientIDs of the live control sessions
  owned,           \* per control session, the public addresses it owns
  pipes,           \* per connection, the Pipe its pipe handshake produced
  TunnelMap,       \* the tunnel registry: public address -> Tunnel
  TunnelMapLock,   \* the goroutines holding the registry's read lock
  hpc,             \* handleHttpConn: where each HTTP goroutine stands
  hconnOpen,       \* the external HTTP connection is not closed
  hdeadline,       \* the 20 s deadline is armed on the external connection
  hinfo,           \* info["Host"] sniffed by vhost.GetHttpRequestInfo
  htunnel,         \* tunnel, isok of the registry lookup
  hstream,         \* the Pipe carrying this connection's work stream, or 0
  hevents,         \* per HTTP connection, the calls made, in order
  spc,             \* handleHttpsConn: where each HTTPS goroutine stands
  sconnOpen,       \* the external HTTPS connection is not closed
  sdeadline,       \* the 20 s deadline is armed on the external connection
  sinfo,           \* info["Host"] sniffed by vhost.GetHttpsHostname
  stunnel,         \* tunnel, isok of the registry lookup
  tlsConn,         \* the layers of tls.Server(sconn, tlsConfig), or <<>>
  sproxied,        \* the stream proxyConn was called with, or <<>>
  sstream,         \* the Pipe carrying this connection's work stream, or 0
  sevents,         \* per HTTPS connection, the calls made, in order
  qpc,             \* tunnelQuery: where each management request stands
  qreq,            \* query.RemoteAddr of the request
  qiter,           \* the keys the loop over TunnelMap has visited
  qresp            \* the statuses written and the Tunnels of the response

connVars == <<pc, hello, connOpen, sent, underlyingConn, sess, events, failed>>
poolVars == <<ControlMap, owned, pipes>>
regVars == <<TunnelMap, TunnelMapLock>>
httpVars == <<hpc, hconnOpen, hdeadline, hinfo, htunnel, hstream, hevents>>
confVars == <<serverConf, maxIdlePipes, maxStreams>>
httpsVars == <<spc, sconnOpen, sdeadline, sinfo, stunnel, tlsConn, sproxied,
               sstream, sevents>>
queryVars == <<qpc, qreq, qiter, qresp>>
vars == <<confVars, connVars, poolVars, regVars, httpVars, httpsVars,
          queryVars>>

(* ---- configuration ---------------------------------------------------- *)
\* Certificate, key and secret as LoadConfig leaves them: each configured
\* or empty.
Security == [TlsCert : {"", "server.crt"}, TlsKey : {"", "server.key"},
             SecretKey : {"", "password"}]

\* Every certificate, key and secret configured.
FullSecurity == [TlsCert |-> "server.crt", TlsKey |-> "server.key",
                 SecretKey |-> "password"]

\* serverConf for certificates and secret among secs and pool limits
\* max_idle_pipes and max_streams among limits, written in decimal.
Configs(secs, limits) ==
  {[TlsCert |-> s.TlsCert, TlsKey |-> s.TlsKey, SecretKey |-> s.SecretKey,
    HttpPort |-> 80, HttpsPort |-> 443,
    MaxIdlePipes |-> ToString(i), MaxStreams |-> ToString(j)] :
     s \in secs, i \in limits, j \in limits}

\* strconv.ParseUint(str, 10, 64) of a decimal numeral.
ParseUint(str) == CHOOSE n \in 0..MaxCfg : ToString(n) = str

\* A slip in Main: max_idle_pipes is parsed from the max_streams setting.
Main_IdleFromStreams(conf) ==
  [maxIdlePipes |-> ParseUint(conf.MaxStreams),
   maxStreams |-> ParseUint(conf.MaxStreams)]

\* A slip in Main: max_streams is parsed from the max_idle_pipes setting.
Main_StreamsFromIdle(conf) ==
  [maxIdlePipes |-> ParseUint(conf.MaxIdlePipes),
   maxStreams |-> ParseUint(conf.MaxIdlePipes)]

\* Main: the two pool limits parsed from the configuration.
Main(conf) ==
  [maxIdlePipes |-> ParseUint(conf.MaxIdlePipes),
   maxStreams |-> ParseUint(conf.MaxStreams)]

\* The state when Main starts the listeners, for a configuration among
\* confs.
InitWith(confs) ==
  /\ serverConf \in confs
  /\ maxIdlePipes = Main(serverConf).maxIdlePipes
  /\ maxStreams = Main(serverConf).maxStreams
  /\ pc = [c \in Conns |-> "idle"]
  /\ hello = [c \in Conns |-> NoMsg]
  /\ connOpen = [c \in Conns |-> FALSE]
  /\ sent = [c \in Conns |-> <<>>]
  /\ underlyingConn = [c \in Conns |-> <<>>]
  /\ sess = [c \in Conns |-> "none"]
  /\ events = [c \in Conns |-> <<>>]
  /\ failed = [c \in Conns |-> FALSE]
  /\ ControlMap = {}
  /\ owned = [c \in Conns |-> {}]
  /\ pipes = [c \in Conns |-> NoPipe]
  /\ TunnelMap = [a \in {} |-> NoTunnel]
  /\ TunnelMapLock = {}
  /\ hpc = [h \in HConns |-> "idle"]
  /\ hconnOpen = [h \in HConns |-> FALSE]
  /\ hdeadline = [h \in HConns |-> FALSE]
  /\ hinfo = [h \in HConns |-> ""]
  /\ htunnel = [h \in HConns |-> [isok |-> FALSE, tunnel |-> NoTunnel]]
  /\ hstream = [h \in HConns |-> 0]
  /\ hevents = [h \in HConns |-> <<>>]
  /\ spc = [s \in SConns |-> "idle"]
  /\ sconnOpen = [s \in SConns |-> FALSE]
  /\ sdeadline = [s \in SConns |-> FALSE]
  /\ sinfo = [s \in SConns |-> ""]
  /\ stunnel = [s \in SConns |-> [isok |-> FALSE, tunnel |-> NoTunnel]]
  /\ tlsConn = [s \in SConns |-> <<>>]
  /\ sproxied = [s \in SConns |-> <<>>]
  /\ sstream = [s \in SConns |-> 0]
  /\ sevents = [s \in SConns |-> <<>>]
  /\ qpc = [q \in Queries |-> "idle"]
  /\ qreq = [q \in Queries |-> ""]
  /\ qiter = [q \in Queries |-> {}]
  /\ qresp = [q \in Queries |-> [status |-> <<>>, Tunnels |-> {}]]

(* ---- helpers ---------------------------------------------------------- *)
Log(c, e) == [events EXCEPT ![c] = Append(@, e)]
LogAll(c, es) == [events EXCEPT ![c] = @ \o es]

Has(s, e) == \E i \in 1..Len(s) : s[i] = e
Count(s, e) == Cardinality({i \in 1..Len(s) : s[i] = e})
\* Position of the first e in s, 0 when there is none.
First(s, e) == IF Has(s, e) THEN CHOOSE i \in 1..Len(s) :
                                   s[i] = e /\ \A j \in 1..(i-1) : s[j] # e
               ELSE 0

(* ---- handleConn: encryption negotiation ------------------------------- *)
\* The first if / else-if / else chain of handleConn: which handshake reply
\* is written for a ClientHello.
TlsUnsupported(ch, conf) ==
  ch.EncryptMode = "tls" /\ (conf.TlsCert = "" \/ conf.TlsKey = "")

\* A slip in the aes test: the secret is not looked at.
AesUnsupported_AnyKey(ch, conf) ==
  ch.EncryptMode = "aes"

AesUnsupported(ch, conf) ==
  ch.EncryptMode = "aes" /\ conf.SecretKey = ""

HandshakeReply(ch, conf) ==
  IF TlsUnsupported(ch, conf) THEN "Error"
  ELSE IF AesUnsupported(ch, conf) THEN "Error"
  ELSE "ServerHello"

\* newTlsConfig: tls.LoadX509KeyPair cannot read a file with an empty name;
\* with both names configured it succeeds or fails with the files' contents.
newTlsConfig(conf) ==
  IF conf.TlsCert = "" \/ conf.TlsKey = "" THEN {FALSE} ELSE {TRUE, FALSE}

\* crypto.NewCryptoStream(conn, key): the stream is set up or an error is
\* returned.
NewCryptoStream(key) == {TRUE, FALSE}

\* transport.NewCompStream wraps the stream when the client asked for it.
WithCompress(ch, layers) ==
  IF ch.EnableCompress THEN Append(layers, "comp") ELSE layers

(* ---- control session, pipe pool and registry writers ------------------- *)
\* Tunnels a control handshake asks for: up to MaxTunnels public addresses,
\* each with its routing config.
TunnelRequests ==
  UNION {[T -> Rewrites] : T \in {S \in SUBSET Addrs : Cardinality(S) <= MaxTunnels}}

\* Registration under the registry's write lock: every requested address
\* becomes a Tunnel of control session c.
RegisterTunnels(map, c, req) ==
  [a \in DOMAIN map \cup DOMAIN req |->
     IF a \in DOMAIN req
     THEN [ctl |-> c, HttpHostRewrite |-> req[a], addr |-> a]
     ELSE map[a]]

\* Teardown under the write lock: every public address the control session
\* owns leaves the registry.
RemoveTunnels(map, addrs) ==
  [a \in DOMAIN map \ addrs |-> map[a]]

Pooled(p) == p.state \in {"idle", "busy"}

IdlePipes(ps, s) == {p \in Conns : ps[p].ctl = s /\ ps[p].state = "idle"}

\* Pipes of session s with spare stream capacity.
SparePipes(ps, s, cap) ==
  {p \in Conns : ps[p].ctl = s /\ Pooled(ps[p]) /\ ps[p].streams < cap}

\* A new Pipe of session s is pooled as idle unless the session already
\* holds max idle Pipes, and then it is closed at once.
putPipe(ps, p, s, max) ==
  IF Cardinality(IdlePipes(ps, s)) >= max
  THEN [ps EXCEPT ![p] = [ctl |-> s, state |-> "closed", streams |-> 0]]
  ELSE [ps EXCEPT ![p] = [ctl |-> s, state |-> "idle", streams |-> 0]]

\* Allocation of one work stream on Pipe p.
openStream(ps, p) ==
  [ps EXCEPT ![p] = [@ EXCEPT !.state = "busy", !.streams = @ + 1]]

\* Release of one work stream of Pipe p: a Pipe whose stream count returns
\* to zero re-enters the idle set, capacity permitting, or is closed.
closeStream(ps, p, max) ==
  IF ~Pooled(ps[p]) THEN ps
  ELSE IF ps[p].streams > 1
  THEN [ps EXCEPT ![p] = [@ EXCEPT !.streams = @ - 1]]
  ELSE IF Cardinality(IdlePipes(ps, ps[p].ctl)) >= max
  THEN [ps EXCEPT ![p] = [@ EXCEPT !.state = "closed", !.streams = 0]]
  ELSE [ps EXCEPT ![p] = [@ EXCEPT !.state = "idle", !.streams = 0]]

\* Teardown closes every Pipe of session c.
ClosePipes(ps, c) ==
  [p \in Conns |->
     IF ps[p].ctl = c /\ Pooled(ps[p])
     THEN [ps[p] EXCEPT !.state = "closed", !.streams = 0]
     ELSE ps[p]]

(* ---- scheduling ------------------------------------------------------- *)
\* ReadMsg, WriteReply, Transform, SmuxServer and AcceptStream, Sniff,
\* HRewrite and HBadGateway, HsSniff, HsTlsConfig and HsBadGateway, and the
\* reading of a management request and the
\* writing of its response, read and write only their own connection: they
\* commute with every step of every other goroutine.  LocalFirst(TRUE, g)
\* lets goroutine g step only when no other goroutine has such a step to
\* take, so goroutines interleave only where they touch ControlMap, the
\* pools or the registry; LocalFirst(FALSE, g) allows every schedule.
LocalPc == {"read", "reply", "transform", "smux", "accept"}
HLocalPc == {"sniff", "rewrite", "badgateway"}
SLocalPc == {"sniff", "tlsconfig", "badgateway"}
QLocalPc == {"read", "respond"}
LocalFirst(lf, g) ==
  lf => /\ \A c \in Conns : <<"conn", c>> # g => pc[c] \notin LocalPc
        /\ \A h \in HConns : <<"http", h>> # g => hpc[h] \notin HLocalPc
        /\ \A s \in SConns : <<"https", s>> # g => spc[s] \notin SLocalPc
        /\ \A q \in Queries : <<"query", q>> # g => qpc[q] \notin QLocalPc

(* ---- handleConn ------------------------------------------------------- *)
\* The handler returns after conn.Close().
CloseAndReturn(c, es) ==
  /\ connOpen' = [connOpen EXCEPT ![c] = FALSE]
  /\ events' = LogAll(c, es \o <<"conn.Close">>)
  /\ pc' = [pc EXCEPT ![c] = "done"]

\* serve: lis.Accept() and go handleConn(conn).  Connections are numbered
\* in the order they are accepted.
Accept(c) ==
  /\ pc[c] = "idle"
  /\ IF c = 1 THEN TRUE ELSE pc[c - 1] # "idle"
  /\ pc' = [pc EXCEPT ![c] = "read"]
  /\ connOpen' = [connOpen EXCEPT ![c] = TRUE]
  /\ UNCHANGED <<hello, sent, underlyingConn, sess, events, failed>>
  /\ UNCHANGED <<confVars, httpsVars, poolVars, regVars, httpVars, queryVars>>

\* Where handleConn goes on the message type it has read.
Dispatch(m) ==
  IF m.type = "ClientHello" THEN "reply"
  ELSE IF m.type = "PipeClientHello" THEN "pipe"
  ELSE "done"

\* msg.ReadMsg(conn) and the dispatch on mType.
ReadMsg(c, E) ==
  /\ pc[c] = "read"
  /\ \/ /\ FALSE \in E.io
        /\ CloseAndReturn(c, <<>>)
        /\ failed' = [failed EXCEPT ![c] = TRUE]
        /\ UNCHANGED hello
     \/ \E m \in E.msgs :
          /\ hello' = [hello EXCEPT ![c] = m]
          /\ pc' = [pc EXCEPT ![c] = Dispatch(m)]
          /\ failed' = [failed EXCEPT ![c] = Dispatch(m) = "done"]
          /\ events' = Log(c, "ReadMsg")
          /\ UNCHANGED connOpen
  /\ UNCHANGED <<sent, underlyingConn, sess>>
  /\ UNCHANGED <<confVars, httpsVars, poolVars, regVars, httpVars, queryVars>>

\* msg.WriteMsg of the handshake reply.
WriteReply(c, E) ==
  /\ pc[c] = "reply"
  /\ LET r == HandshakeReply(hello[c], serverConf) IN
       \/ /\ FALSE \in E.io
          /\ CloseAndReturn(c, <<>>)
          /\ failed' = [failed EXCEPT ![c] = TRUE]
          /\ UNCHANGED sent
       \/ /\ sent' = [sent EXCEPT ![c] = Append(@, r)]
          /\ events' = Log(c, r)
          /\ pc' = [pc EXCEPT ![c] = "transform"]
          /\ UNCHANGED <<connOpen, failed>>
  /\ UNCHANGED <<hello, underlyingConn, sess>>
  /\ UNCHANGED <<confVars, httpsVars, poolVars, regVars, httpVars, queryVars>>

\* The transform stack has been built: on to smux.Server.
Upgraded(c, layer) ==
  /\ underlyingConn' = [underlyingConn EXCEPT ![c] =
                          WithCompress(hello[c], <<"conn">> \o layer)]
  /\ events' = LogAll(c, layer \o
                 (IF hello[c].EnableCompress THEN <<"comp">> ELSE <<>>))
  /\ pc' = [pc EXCEPT ![c] = "smux"]
  /\ UNCHANGED <<connOpen, failed, sent>>

\* The second if / else-if chain: the encryption layer for the requested
\* mode, then the optional compression layer.
Transform(c, E) ==
  /\ pc[c] = "transform"
  /\ \/ /\ hello[c].EncryptMode = "tls"
        /\ \E ok \in newTlsConfig(serverConf) \cap ({FALSE} \cup E.io) :
             IF ok THEN Upgraded(c, <<"tls">>)
             ELSE /\ CloseAndReturn(c, <<>>)
                  /\ failed' = [failed EXCEPT ![c] = TRUE]
                  /\ UNCHANGED <<underlyingConn, sent>>
     \/ /\ hello[c].EncryptMode = "aes"
        /\ \E ok \in NewCryptoStream(serverConf.SecretKey) \cap E.io :
             IF ok THEN Upgraded(c, <<"aes">>)
             ELSE /\ CloseAndReturn(c, <<>>)
                  /\ failed' = [failed EXCEPT ![c] = TRUE]
                  /\ UNCHANGED <<underlyingConn, sent>>
     \/ /\ hello[c].EncryptMode = "none"
        /\ Upgraded(c, <<>>)
     \/ /\ hello[c].EncryptMode \notin {"tls", "aes", "none"}
        /\ \E written \in E.io :
             /\ sent' = [sent EXCEPT ![c] =
                           IF written THEN Append(@, "Error") ELSE @]
             /\ CloseAndReturn(c, IF written THEN <<"Error">> ELSE <<>>)
        /\ failed' = [failed EXCEPT ![c] = TRUE]
        /\ UNCHANGED underlyingConn
  /\ UNCHANGED <<hello, sess>>
  /\ UNCHANGED <<confVars, httpsVars, poolVars, regVars, httpVars, queryVars>>

\* smux.Server(underlyingConn, smuxConfig); on error underlyingConn.Close(),
\* which closes the raw connection under the transform layers.
SmuxServer(c, E) ==
  /\ pc[c] = "smux"
  /\ \/ /\ sess' = [sess EXCEPT ![c] = "open"]
        /\ events' = Log(c, "smux.Server")
        /\ pc' = [pc EXCEPT ![c] = "accept"]
        /\ UNCHANGED <<connOpen, failed>>
     \/ /\ FALSE \in E.io
        /\ CloseAndReturn(c, <<>>)
        /\ failed' = [failed EXCEPT ![c] = TRUE]
        /\ UNCHANGED sess
  /\ UNCHANGED <<hello, sent, underlyingConn>>
  /\ UNCHANGED <<confVars, httpsVars, poolVars, regVars, httpVars, queryVars>>

\* A slip: the session is not closed when the handler returns.
SessClose_Leak(c, es) ==
  /\ sess' = sess
  /\ CloseAndReturn(c, es)

\* The deferred sess.Close(): closing the session closes the connection
\* it runs on.
SessClose(c, es) ==
  /\ sess' = [sess EXCEPT ![c] = "closed"]
  /\ CloseAndReturn(c, es \o <<"sess.Close">>)

\* sess.AcceptStream()
AcceptStream(c, E) ==
  /\ pc[c] = "accept"
  /\ \/ /\ events' = Log(c, "AcceptStream")
        /\ pc' = [pc EXCEPT ![c] = "control"]
        /\ UNCHANGED <<connOpen, failed, sess>>
     \/ /\ FALSE \in E.io
        /\ SessClose(c, <<>>)
        /\ failed' = [failed EXCEPT ![c] = TRUE]
  /\ UNCHANGED <<hello, sent, underlyingConn>>
  /\ UNCHANGED <<confVars, httpsVars, poolVars, regVars, httpVars, queryVars>>

\* handleControl up to ctl.Serve(): NewControl and ctl.ServerHandShake(),
\* which mints the ClientID (the connection's number) and registers the
\* client's Tunnels under the write lock; a request for a public address
\* that is taken fails the handshake.
handleControl(c, E) ==
  /\ pc[c] = "control"
  /\ \/ /\ FALSE \in E.io
        /\ SessClose(c, <<"handleControl", "stream.Close">>)
        /\ failed' = [failed EXCEPT ![c] = TRUE]
        /\ UNCHANGED <<ControlMap, owned, TunnelMap>>
     \/ \E req \in E.reqs :
          IF DOMAIN req \cap DOMAIN TunnelMap # {}
          THEN /\ SessClose(c, <<"handleControl", "stream.Close">>)
               /\ failed' = [failed EXCEPT ![c] = TRUE]
               /\ UNCHANGED <<ControlMap, owned, TunnelMap>>
          ELSE /\ DOMAIN req = {} \/ TunnelMapLock = {}
               /\ TunnelMap' = RegisterTunnels(TunnelMap, c, req)
               /\ owned' = [owned EXCEPT ![c] = DOMAIN req]
               /\ ControlMap' = ControlMap \cup {c}
               /\ events' = LogAll(c, <<"handleControl", "ctl.Serve">>)
               /\ pc' = [pc EXCEPT ![c] = "serve"]
               /\ UNCHANGED <<connOpen, failed, sess>>
  /\ UNCHANGED <<hello, sent, underlyingConn, pipes, TunnelMapLock>>
  /\ UNCHANGED <<confVars, httpsVars, httpVars, queryVars>>

\* ctl.Serve: the control stream or its multiplexed session closes.
ServeEnds(c) ==
  /\ pc[c] = "serve"
  /\ pc' = [pc EXCEPT ![c] = "teardown"]
  /\ UNCHANGED <<hello, connOpen, sent, underlyingConn, sess, events, failed>>
  /\ UNCHANGED <<confVars, httpsVars, poolVars, regVars, httpVars, queryVars>>

\* Teardown of control session c under the write lock, then the return of
\* ctl.Serve, of handleControl and of handleConn with its deferred
\* sess.Close().
Teardown(c) ==
  /\ pc[c] = "teardown"
  /\ TunnelMapLock = {}
  /\ TunnelMap' = RemoveTunnels(TunnelMap, owned[c])
  /\ owned' = [owned EXCEPT ![c] = {}]
  /\ ControlMap' = ControlMap \ {c}
  /\ pipes' = ClosePipes(pipes, c)
  /\ sess' = [sess EXCEPT ![c] = "closed"]
  /\ connOpen' = [p \in Conns |->
       IF p = c \/ (pipes[p].ctl = c /\ Pooled(pipes[p])) THEN FALSE
       ELSE connOpen[p]]
  /\ events' = LogAll(c, <<"sess.Close", "conn.Close">>)
  /\ pc' = [pc EXCEPT ![c] = "done"]
  /\ UNCHANGED <<hello, sent, underlyingConn, failed, TunnelMapLock>>
  /\ UNCHANGED <<confVars, httpsVars, httpVars, queryVars>>

\* PipeHandShake(conn, phs): nil when the Pipe was handed to the pool of
\* the live control session phs.ClientID names, an error when no live
\* session has that id or the transform / multiplexed session fails.
PipeHandShake(c, ok) ==
  IF hello[c].ClientID \notin ControlMap \/ ~ok
  THEN [err |-> TRUE, pipes |-> pipes]
  ELSE [err |-> FALSE,
        pipes |-> putPipe(pipes, c, hello[c].ClientID, maxIdlePipes)]

\* A slip in handlePipe: the connection is left open on the error.
handlePipe_NoClose(c) ==
  /\ pc[c] = "pipe"
  /\ \E ok \in BOOLEAN :
       LET r == PipeHandShake(c, ok) IN
         /\ pipes' = r.pipes
         /\ connOpen' = [connOpen EXCEPT ![c] = r.pipes[c].state # "closed"]
         /\ events' = Log(c, "handlePipe")
         /\ pc' = [pc EXCEPT ![c] = "done"]
         /\ failed' = [failed EXCEPT ![c] = r.err]
  /\ UNCHANGED <<hello, sent, underlyingConn, sess, ControlMap, owned>>
  /\ UNCHANGED <<confVars, httpsVars, regVars, httpVars, queryVars>>

\* handlePipe: PipeHandShake, and conn.Close() on its error.
handlePipe(c) ==
  /\ pc[c] = "pipe"
  /\ \E ok \in BOOLEAN :
       LET r == PipeHandShake(c, ok) IN
         IF r.err
         THEN /\ CloseAndReturn(c, <<"handlePipe">>)
              /\ failed' = [failed EXCEPT ![c] = TRUE]
              /\ UNCHANGED pipes
         ELSE /\ pipes' = r.pipes
              /\ connOpen' = [connOpen EXCEPT ![c] = r.pipes[c].state # "closed"]
              /\ events' = Log(c, "handlePipe")
              /\ pc' = [pc EXCEPT ![c] = "done"]
              /\ UNCHANGED failed
  /\ UNCHANGED <<hello, sent, underlyingConn, sess, ControlMap, owned>>
  /\ UNCHANGED <<confVars, httpsVars, regVars, httpVars, queryVars>>

handleConn(c, E, lf) ==
  \/ LocalFirst(lf, <<"conn", c>>) /\ ReadMsg(c, E)
  \/ LocalFirst(lf, <<"conn", c>>) /\ WriteReply(c, E)
  \/ LocalFirst(lf, <<"conn", c>>) /\ Transform(c, E)
  \/ LocalFirst(lf, <<"conn", c>>) /\ SmuxServer(c, E)
  \/ LocalFirst(lf, <<"conn", c>>) /\ AcceptStream(c, E)
  \/ LocalFirst(lf, <<"conn", c>>) /\ handleControl(c, E)
  \/ LocalFirst(lf, <<"conn", c>>) /\ ServeEnds(c)
  \/ LocalFirst(lf, <<"conn", c>>) /\ Teardown(c)
  \/ LocalFirst(lf, <<"conn", c>>) /\ handlePipe(c)

(* ---- handleHttpConn and the proxy pump --------------------------------- *)
HLog(h, es) == [hevents EXCEPT ![h] = @ \o es]

\* A slip in the key: the port is left out.
HttpKey_NoPort(host, port) == "http://" \o host

\* fmt.Sprintf("http://%s:%d", info["Host"], serverConf.HttpPort)
HttpKey(host, port) == "http://" \o host \o ":" \o ToString(port)

\* tunnel, isok := TunnelMap[key]
MapLookup(map, key) ==
  IF key \in DOMAIN map THEN [isok |-> TRUE, tunnel |-> map[key]]
  ELSE [isok |-> FALSE, tunnel |-> NoTunnel]

\* The handler returns; the deferred conn.Close() runs.
HReturn(h, es) ==
  /\ hconnOpen' = [hconnOpen EXCEPT ![h] = FALSE]
  /\ hevents' = HLog(h, es \o <<"conn.Close">>)
  /\ hpc' = [hpc EXCEPT ![h] = "done"]

\* serveHttp: lis.Accept() and go handleHttpConn(conn), which arms the
\* 20 s deadline.
HAccept(h) ==
  /\ hpc[h] = "idle"
  /\ IF h = 1 THEN TRUE ELSE hpc[h - 1] # "idle"
  /\ hpc' = [hpc EXCEPT ![h] = "sniff"]
  /\ hconnOpen' = [hconnOpen EXCEPT ![h] = TRUE]
  /\ hdeadline' = [hdeadline EXCEPT ![h] = TRUE]
  /\ hevents' = HLog(h, <<"SetDeadline">>)
  /\ UNCHANGED <<hinfo, htunnel, hstream>>
  /\ UNCHANGED <<confVars, httpsVars, connVars, poolVars, regVars, queryVars>>

\* vhost.GetHttpRequestInfo(conn): the sniff fails (or times out) or yields
\* the Host header.
Sniff(h, E) ==
  /\ hpc[h] = "sniff"
  /\ \/ /\ FALSE \in E.hio
        /\ HReturn(h, <<>>)
        /\ UNCHANGED hinfo
     \/ \E host \in E.hosts :
          /\ hinfo' = [hinfo EXCEPT ![h] = host]
          /\ hevents' = HLog(h, <<"sniffed">>)
          /\ hpc' = [hpc EXCEPT ![h] = "rlock"]
          /\ UNCHANGED hconnOpen
  /\ UNCHANGED <<hdeadline, htunnel, hstream>>
  /\ UNCHANGED <<confVars, httpsVars, connVars, poolVars, regVars, queryVars>>

\* A slip: the registry is read without the read lock.
HRLock_Skipped(h) ==
  /\ hpc[h] = "rlock"
  /\ hpc' = [hpc EXCEPT ![h] = "lookup"]
  /\ UNCHANGED <<hconnOpen, hdeadline, hinfo, htunnel, hstream, hevents>>
  /\ UNCHANGED <<confVars, httpsVars, connVars, poolVars, regVars, queryVars>>

\* TunnelMapLock.RLock()
HRLock(h) ==
  /\ hpc[h] = "rlock"
  /\ TunnelMapLock' = TunnelMapLock \cup {<<"http", h>>}
  /\ hpc' = [hpc EXCEPT ![h] = "lookup"]
  /\ UNCHANGED <<hconnOpen, hdeadline, hinfo, htunnel, hstream, hevents>>
  /\ UNCHANGED <<confVars, httpsVars, connVars, poolVars, TunnelMap, queryVars>>

\* A slip in the dispatch: the gateway error is written on a match.
AfterLookup_Inverted(r) ==
  IF ~r.isok
  THEN IF r.tunnel.HttpHostRewrite # "" THEN "rewrite" ELSE "proxy"
  ELSE "badgateway"

\* Where handleHttpConn goes on the result of the lookup.
AfterLookup(r) ==
  IF r.isok
  THEN IF r.tunnel.HttpHostRewrite # "" THEN "rewrite" ELSE "proxy"
  ELSE "badgateway"

\* The map read and TunnelMapLock.RUnlock().
HLookup(h) ==
  /\ hpc[h] = "lookup"
  /\ LET r == MapLookup(TunnelMap, HttpKey(hinfo[h], serverConf.HttpPort)) IN
       /\ htunnel' = [htunnel EXCEPT ![h] = r]
       /\ hpc' = [hpc EXCEPT ![h] = AfterLookup(r)]
  /\ TunnelMapLock' = TunnelMapLock \ {<<"http", h>>}
  /\ hevents' = HLog(h, <<"lookup">>)
  /\ UNCHANGED <<hconnOpen, hdeadline, hinfo, hstream>>
  /\ UNCHANGED <<confVars, httpsVars, connVars, poolVars, TunnelMap, queryVars>>

\* vhost.HttpHostNameRewrite(sconn, tunnel.tunnelConfig.HttpHostRewrite)
HRewrite(h, E) ==
  /\ hpc[h] = "rewrite"
  /\ \/ /\ FALSE \in E.hio
        /\ HReturn(h, <<>>)
     \/ /\ hevents' = HLog(h, <<"HttpHostNameRewrite">>)
        /\ hpc' = [hpc EXCEPT ![h] = "proxy"]
        /\ UNCHANGED hconnOpen
  /\ UNCHANGED <<hdeadline, hinfo, htunnel, hstream>>
  /\ UNCHANGED <<confVars, httpsVars, connVars, poolVars, regVars, queryVars>>

\* A slip: the deadline is left armed.
ClearDeadline_Kept(d, h) == d

\* conn.SetDeadline(time.Time{})
ClearDeadline(d, h) == [d EXCEPT ![h] = FALSE]

\* conn.SetDeadline(time.Time{}) and proxyConn(sconn, tunnel.ctl,
\* tunnel.name) up to the byte copy: one work stream is allocated on a Pipe
\* of the session with spare capacity; with the session gone or no such
\* Pipe the allocation fails at once and proxyConn returns.
HProxy(h) ==
  /\ hpc[h] = "proxy"
  /\ hdeadline' = ClearDeadline(hdeadline, h)
  /\ LET s == htunnel[h].tunnel.ctl
         spare == IF s \in ControlMap THEN SparePipes(pipes, s, maxStreams)
                  ELSE {} IN
       IF spare = {}
       THEN /\ HReturn(h, <<"ClearDeadline", "proxyConn">>)
            /\ UNCHANGED <<pipes, hstream>>
       ELSE \E p \in spare :
              /\ pipes' = openStream(pipes, p)
              /\ hstream' = [hstream EXCEPT ![h] = p]
              /\ hevents' = HLog(h, <<"ClearDeadline", "proxyConn", "stream">>)
              /\ hpc' = [hpc EXCEPT ![h] = "pump"]
              /\ UNCHANGED hconnOpen
  /\ UNCHANGED <<hinfo, htunnel, ControlMap, owned>>
  /\ UNCHANGED <<confVars, httpsVars, connVars, regVars, queryVars>>

\* proxyConn: either side of the relay closes; the work stream is released
\* and the handler returns.
HPumpEnds(h) ==
  /\ hpc[h] = "pump"
  /\ pipes' = closeStream(pipes, hstream[h], maxIdlePipes)
  /\ connOpen' = [connOpen EXCEPT ![hstream[h]] =
                    @ /\ pipes'[hstream[h]].state # "closed"]
  /\ hstream' = [hstream EXCEPT ![h] = 0]
  /\ HReturn(h, <<>>)
  /\ UNCHANGED <<hdeadline, hinfo, htunnel, ControlMap, owned>>
  /\ UNCHANGED <<pc, hello, sent, underlyingConn, sess, events, failed>>
  /\ UNCHANGED <<confVars, httpsVars, regVars, queryVars>>

\* sconn.Write([]byte(vhost.BadGateWayResp()))
HBadGateway(h) ==
  /\ hpc[h] = "badgateway"
  /\ HReturn(h, <<"BadGateWayResp">>)
  /\ UNCHANGED <<hdeadline, hinfo, htunnel, hstream>>
  /\ UNCHANGED <<confVars, httpsVars, connVars, poolVars, regVars, queryVars>>

handleHttpConn(h, E, lf) ==
  \/ LocalFirst(lf, <<"http", h>>) /\ Sniff(h, E)
  \/ LocalFirst(lf, <<"http", h>>) /\ HRLock(h)
  \/ LocalFirst(lf, <<"http", h>>) /\ HLookup(h)
  \/ LocalFirst(lf, <<"http", h>>) /\ HRewrite(h, E)
  \/ LocalFirst(lf, <<"http", h>>) /\ HProxy(h)
  \/ LocalFirst(lf, <<"http", h>>) /\ HPumpEnds(h)
  \/ LocalFirst(lf, <<"http", h>>) /\ HBadGateway(h)

(* ---- handleHttpsConn --------------------------------------------------- *)
SLog(s, es) == [sevents EXCEPT ![s] = @ \o es]

\* A slip in the key: the scheme of the HTTP listener.
HttpsKey_HttpScheme(host, port) == "http://" \o host \o ":" \o ToString(port)

\* fmt.Sprintf("https://%s:%d", info["Host"], serverConf.HttpsPort)
HttpsKey(host, port) == "https://" \o host \o ":" \o ToString(port)

\* tls.Server(sconn, tlsConfig): the TLS layer over the sniffed connection.
TlsServer(sconn) == Append(sconn, "tls")

\* A slip: the deferred conn.Close() is missing.
HsReturn_NoClose(s, es) ==
  /\ sconnOpen' = sconnOpen
  /\ sevents' = SLog(s, es)
  /\ spc' = [spc EXCEPT ![s] = "done"]

\* The handler returns; the deferred conn.Close() runs.
HsReturn(s, es) ==
  /\ sconnOpen' = [sconnOpen EXCEPT ![s] = FALSE]
  /\ sevents' = SLog(s, es \o <<"conn.Close">>)
  /\ spc' = [spc EXCEPT ![s] = "done"]

\* serveHttps: lis.Accept() and go handleHttpsConn(conn), which arms the
\* 20 s deadline.
HsAccept(s) ==
  /\ spc[s] = "idle"
  /\ IF s = 1 THEN TRUE ELSE spc[s - 1] # "idle"
  /\ spc' = [spc EXCEPT ![s] = "sniff"]
  /\ sconnOpen' = [sconnOpen EXCEPT ![s] = TRUE]
  /\ sdeadline' = [sdeadline EXCEPT ![s] = TRUE]
  /\ sevents' = SLog(s, <<"SetDeadline">>)
  /\ UNCHANGED <<sinfo, stunnel, tlsConn, sproxied, sstream>>
  /\ UNCHANGED <<confVars, connVars, poolVars, regVars, httpVars, queryVars>>

\* vhost.GetHttpsHostname(conn): the sniff fails (or times out) or yields
\* the host name of the TLS ClientHello.
HsSniff(s, E) ==
  /\ spc[s] = "sniff"
  /\ \/ /\ FALSE \in E.hio
        /\ HsReturn(s, <<>>)
        /\ UNCHANGED sinfo
     \/ \E host \in E.hosts :
          /\ sinfo' = [sinfo EXCEPT ![s] = host]
          /\ sevents' = SLog(s, <<"sniffed">>)
          /\ spc' = [spc EXCEPT ![s] = "rlock"]
          /\ UNCHANGED sconnOpen
  /\ UNCHANGED <<sdeadline, stunnel, tlsConn, sproxied, sstream>>
  /\ UNCHANGED <<confVars, connVars, poolVars, regVars, httpVars, queryVars>>

\* TunnelMapLock.RLock()
HsRLock(s) ==
  /\ spc[s] = "rlock"
  /\ TunnelMapLock' = TunnelMapLock \cup {<<"https", s>>}
  /\ spc' = [spc EXCEPT ![s] = "lookup"]
  /\ UNCHANGED <<sconnOpen, sdeadline, sinfo, stunnel, tlsConn, sproxied,
                 sstream, sevents>>
  /\ UNCHANGED <<confVars, connVars, poolVars, TunnelMap, httpVars, queryVars>>

\* A slip: the lock is not released after the map read.
HsLookup_NoRUnlock(s) ==
  /\ spc[s] = "lookup"
  /\ stunnel' = [stunnel EXCEPT ![s] =
       MapLookup(TunnelMap, HttpsKey(sinfo[s], serverConf.HttpsPort))]
  /\ spc' = [spc EXCEPT ![s] = "tlsconfig"]
  /\ sevents' = SLog(s, <<"lookup">>)
  /\ UNCHANGED <<sconnOpen, sdeadline, sinfo, tlsConn, sproxied, sstream>>
  /\ UNCHANGED <<confVars, connVars, poolVars, regVars, httpVars, queryVars>>

\* The map read and TunnelMapLock.RUnlock().
HsLookup(s) ==
  /\ spc[s] = "lookup"
  /\ stunnel' = [stunnel EXCEPT ![s] =
       MapLookup(TunnelMap, HttpsKey(sinfo[s], serverConf.HttpsPort))]
  /\ TunnelMapLock' = TunnelMapLock \ {<<"https", s>>}
  /\ spc' = [spc EXCEPT ![s] = "tlsconfig"]
  /\ sevents' = SLog(s, <<"lookup">>)
  /\ UNCHANGED <<sconnOpen, sdeadline, sinfo, tlsConn, sproxied, sstream>>
  /\ UNCHANGED <<confVars, connVars, poolVars, TunnelMap, httpVars, queryVars>>

\* newTlsConfig(), on whose error the handler returns, and
\* tls.Server(sconn, tlsConfig); then the dispatch on isok.
HsTlsConfig(s, E) ==
  /\ spc[s] = "tlsconfig"
  /\ \E ok \in newTlsConfig(serverConf) :
       /\ ok \/ FALSE \in E.hio \/ TRUE \notin newTlsConfig(serverConf)
       /\ IF ok
          THEN /\ tlsConn' = [tlsConn EXCEPT ![s] = TlsServer(<<"sconn">>)]
               /\ sevents' = SLog(s, <<"tls.Server">>)
               /\ spc' = [spc EXCEPT ![s] =
                            IF stunnel[s].isok THEN "proxy" ELSE "badgateway"]
               /\ UNCHANGED sconnOpen
          ELSE /\ HsReturn(s, <<"server error cert">>)
               /\ UNCHANGED tlsConn
  /\ UNCHANGED <<sdeadline, sinfo, stunnel, sproxied, sstream>>
  /\ UNCHANGED <<confVars, connVars, poolVars, regVars, httpVars, queryVars>>

\* conn.SetDeadline(time.Time{}) and proxyConn(tlsConn, tunnel.ctl,
\* tunnel.name) up to the byte copy, as in handleHttpConn.
HsProxy(s) ==
  /\ spc[s] = "proxy"
  /\ sdeadline' = ClearDeadline(sdeadline, s)
  /\ sproxied' = [sproxied EXCEPT ![s] = tlsConn[s]]
  /\ LET ctl == stunnel[s].tunnel.ctl
         spare == IF ctl \in ControlMap
                  THEN SparePipes(pipes, ctl, maxStreams) ELSE {} IN
       IF spare = {}
       THEN /\ HsReturn(s, <<"ClearDeadline", "proxyConn">>)
            /\ UNCHANGED <<pipes, sstream>>
       ELSE \E p \in spare :
              /\ pipes' = openStream(pipes, p)
              /\ sstream' = [sstream EXCEPT ![s] = p]
              /\ sevents' = SLog(s, <<"ClearDeadline", "proxyConn", "stream">>)
              /\ spc' = [spc EXCEPT ![s] = "pump"]
              /\ UNCHANGED sconnOpen
  /\ UNCHANGED <<sinfo, stunnel, tlsConn, ControlMap, owned>>
  /\ UNCHANGED <<confVars, connVars, regVars, httpVars, queryVars>>

\* proxyConn: either side of the relay closes; the work stream is released
\* and the handler returns.
HsPumpEnds(s) ==
  /\ spc[s] = "pump"
  /\ pipes' = closeStream(pipes, sstream[s], maxIdlePipes)
  /\ connOpen' = [connOpen EXCEPT ![sstream[s]] =
                    @ /\ pipes'[sstream[s]].state # "closed"]
  /\ sstream' = [sstream EXCEPT ![s] = 0]
  /\ HsReturn(s, <<>>)
  /\ UNCHANGED <<sdeadline, sinfo, stunnel, tlsConn, sproxied, ControlMap,
                 owned>>
  /\ UNCHANGED <<pc, hello, sent, underlyingConn, sess, events, failed>>
  /\ UNCHANGED <<confVars, regVars, httpVars, queryVars>>

\* A slip: the handler returns on a miss without the gateway error.
HsBadGateway_Silent(s) ==
  /\ spc[s] = "badgateway"
  /\ HsReturn(s, <<>>)
  /\ UNCHANGED <<sdeadline, sinfo, stunnel, tlsConn, sproxied, sstream>>
  /\ UNCHANGED <<confVars, connVars, poolVars, regVars, httpVars, queryVars>>

\* tlsConn.Write([]byte(vhost.BadGateWayResp()))
HsBadGateway(s) ==
  /\ spc[s] = "badgateway"
  /\ HsReturn(s, <<"BadGateWayResp">>)
  /\ UNCHANGED <<sdeadline, sinfo, stunnel, tlsConn, sproxied, sstream>>
  /\ UNCHANGED <<confVars, connVars, poolVars, regVars, httpVars, queryVars>>

handleHttpsConn(s, E, lf) ==
  \/ LocalFirst(lf, <<"https", s>>) /\ HsSniff(s, E)
  \/ LocalFirst(lf, <<"https", s>>) /\ HsRLock(s)
  \/ LocalFirst(lf, <<"https", s>>) /\ HsLookup(s)
  \/ LocalFirst(lf, <<"https", s>>) /\ HsTlsConfig(s, E)
  \/ LocalFirst(lf, <<"https", s>>) /\ HsProxy(s)
  \/ LocalFirst(lf, <<"https", s>>) /\ HsPumpEnds(s)
  \/ LocalFirst(lf, <<"https", s>>) /\ HsBadGateway(s)

(* ---- tunnelQuery ------------------------------------------------------ *)
\* Response so far: the statuses passed to w.WriteHeader, in order, and the
\* Tunnels of the body.
Responded(q, st, ts) ==
  /\ qresp' = [qresp EXCEPT ![q] = [status |-> @.status \o st, Tunnels |-> ts]]
  /\ qpc' = [qpc EXCEPT ![q] = "done"]

\* serveManage hands the request to tunnelQuery.
QAccept(q) ==
  /\ qpc[q] = "idle"
  /\ IF q = 1 THEN TRUE ELSE qpc[q - 1] # "idle"
  /\ qpc' = [qpc EXCEPT ![q] = "read"]
  /\ UNCHANGED <<qreq, qiter, qresp>>
  /\ UNCHANGED <<confVars, httpsVars, connVars, poolVars, regVars, httpVars>>

\* ioutil.ReadAll(r.Body) and json.Unmarshal: 400 when either fails.
QRead(q, E) ==
  /\ qpc[q] = "read"
  /\ \/ /\ FALSE \in E.hio
        /\ Responded(q, <<400>>, {})
        /\ UNCHANGED qreq
     \/ \E addr \in E.queries :
          /\ qreq' = [qreq EXCEPT ![q] = addr]
          /\ qpc' = [qpc EXCEPT ![q] = "rlock"]
          /\ UNCHANGED qresp
  /\ UNCHANGED qiter
  /\ UNCHANGED <<confVars, httpsVars, connVars, poolVars, regVars, httpVars>>

\* A slip: the registry is read without the read lock.
QRLock_Skipped(q) ==
  /\ qpc[q] = "rlock"
  /\ qpc' = [qpc EXCEPT ![q] = "lookup"]
  /\ UNCHANGED <<qreq, qiter, qresp, TunnelMap, TunnelMapLock>>
  /\ UNCHANGED <<confVars, httpsVars, connVars, poolVars, httpVars>>

\* TunnelMapLock.RLock()
QRLock(q) ==
  /\ qpc[q] = "rlock"
  /\ TunnelMapLock' = TunnelMapLock \cup {<<"query", q>>}
  /\ qpc' = [qpc EXCEPT ![q] = "lookup"]
  /\ UNCHANGED <<qreq, qiter, qresp, TunnelMap>>
  /\ UNCHANGED <<confVars, httpsVars, connVars, poolVars, httpVars>>

\* A slip: the address asked for is returned whether registered or not.
QueryTunnels_NoCheck(map, addr) == {addr}

\* tunnelStats.Tunnels after the read of the registry under a RemoteAddr:
\* the public address of the Tunnel under that key, if any.
QueryTunnels(map, addr) ==
  IF MapLookup(map, addr).isok
  THEN {MapLookup(map, addr).tunnel.addr} ELSE {}

\* With a RemoteAddr: the read of TunnelMap and TunnelMapLock.RUnlock().
\* Without: on to the loop over TunnelMap, the lock held.
QLookup(q) ==
  /\ qpc[q] = "lookup"
  /\ IF qreq[q] # ""
     THEN /\ qresp' = [qresp EXCEPT ![q].Tunnels =
                         QueryTunnels(TunnelMap, qreq[q])]
          /\ TunnelMapLock' = TunnelMapLock \ {<<"query", q>>}
          /\ qpc' = [qpc EXCEPT ![q] = "respond"]
     ELSE /\ qpc' = [qpc EXCEPT ![q] = "range"]
          /\ UNCHANGED <<qresp, TunnelMapLock>>
  /\ UNCHANGED <<qreq, qiter, TunnelMap>>
  /\ UNCHANGED <<confVars, httpsVars, connVars, poolVars, httpVars>>

\* for _, v := range TunnelMap: one more Tunnel of the map is visited and
\* its public address appended, or none is left and the loop ends with
\* TunnelMapLock.RUnlock().
QRange(q) ==
  /\ qpc[q] = "range"
  /\ IF DOMAIN TunnelMap \ qiter[q] = {}
     THEN /\ TunnelMapLock' = TunnelMapLock \ {<<"query", q>>}
          /\ qpc' = [qpc EXCEPT ![q] = "respond"]
          /\ UNCHANGED <<qiter, qresp>>
     ELSE /\ \E a \in DOMAIN TunnelMap \ qiter[q] :
               /\ qiter' = [qiter EXCEPT ![q] = @ \cup {a}]
               /\ qresp' = [qresp EXCEPT ![q].Tunnels =
                              @ \cup {TunnelMap[a].addr}]
          /\ UNCHANGED <<qpc, TunnelMapLock>>
  /\ UNCHANGED <<qreq, TunnelMap>>
  /\ UNCHANGED <<confVars, httpsVars, connVars, poolVars, httpVars>>

\* w.WriteHeader(http.StatusOK), json.Marshal and the body, or
\* w.WriteHeader(http.StatusInternalServerError) when Marshal fails.
QRespond(q, E) ==
  /\ qpc[q] = "respond"
  /\ \/ Responded(q, <<200>>, qresp[q].Tunnels)
     \/ /\ FALSE \in E.hio
        /\ Responded(q, <<200, 500>>, {})
  /\ UNCHANGED <<qreq, qiter>>
  /\ UNCHANGED <<confVars, httpsVars, connVars, poolVars, regVars, httpVars>>

tunnelQuery(q, E, lf) ==
  \/ LocalFirst(lf, <<"query", q>>) /\ QRead(q, E)
  \/ LocalFirst(lf, <<"query", q>>) /\ QRLock(q)
  \/ LocalFirst(lf, <<"query", q>>) /\ QLookup(q)
  \/ LocalFirst(lf, <<"query", q>>) /\ QRange(q)
  \/ LocalFirst(lf, <<"query", q>>) /\ QRespond(q, E)

(* ---- the server ------------------------------------------------------- *)
\* What the clients and the network do: the handshake messages clients
\* send, the tunnels they ask for, the hosts of HTTP requests, the
\* RemoteAddr of management queries, and the outcomes (FALSE: it fails) of
\* blocking I/O and transform set-up on the control listener's connections,
\* io, and on the HTTP and management connections, hio.
Env(M, R, H, Q, io, hio) ==
  [msgs |-> M, reqs |-> R, hosts |-> H, queries |-> Q, io |-> io, hio |-> hio]

\* serve(lis) and the goroutines it starts, for connections C, under every
\* schedule of the goroutines or, with lf, under the schedules that run
\* local steps first.
ControlListener(C, E, lf) ==
  \/ \E c \in C : LocalFirst(lf, <<"conn", c>>) /\ Accept(c)
  \/ \E c \in C : handleConn(c, E, lf)

\* serveHttp(addr) and the goroutines it starts, for connections HC.
HttpListener(HC, E, lf) ==
  \/ \E h \in HC : LocalFirst(lf, <<"http", h>>) /\ HAccept(h)
  \/ \E h \in HC : handleHttpConn(h, E, lf)

\* serveHttps(addr) and the goroutines it starts, for connections SC.
HttpsListener(SC, E, lf) ==
  \/ \E s \in SC : LocalFirst(lf, <<"https", s>>) /\ HsAccept(s)
  \/ \E s \in SC : handleHttpsConn(s, E, lf)

\* serveManage and the goroutines it starts, for requests QS.
ManageListener(QS, E, lf) ==
  \/ \E q \in QS : LocalFirst(lf, <<"query", q>>) /\ QAccept(q)
  \/ \E q \in QS : tunnelQuery(q, E, lf)

AnyEnv == Env(Msgs, TunnelRequests, Hosts, Addrs \cup {""}, BOOLEAN, BOOLEAN)

Init == InitWith(Configs(Security, 0..MaxCfg))
Next ==
  \/ ControlListener(Conns, AnyEnv, FALSE)
  \/ HttpListener(HConns, AnyEnv, FALSE)
  \/ HttpsListener(SConns, AnyEnv, FALSE)
  \/ ManageListener(Queries, AnyEnv, FALSE)
Spec == Init /\ [][Next]_vars

\* The handshake of handleConn: every configuration, every message, every
\* failure, on the control listener alone.
InitConn == InitWith(Configs(Security, {MaxCfg}))
NextConn == ControlListener(1..NHandshake, AnyEnv, TRUE)
SpecConn == InitConn /\ [][NextConn]_vars

\* Control sessions and their pipe pools: cleartext control sessions with
\* the tunnel http://a.example.com:80, pipe handshakes for ClientID 0 and 1,
\* HTTP connections for the tunnel's host, and no I/O failure outside the
\* pipe handshake.
PoolMsgs == {m \in Msgs : \/ m.type = "PipeClientHello" /\ m.ClientID <= 1
                          \/ /\ m.type = "ClientHello"
                             /\ m.EncryptMode = "none"
                             /\ ~m.EnableCompress}
PoolRequests == {r \in TunnelRequests : DOMAIN r = {"http://a.example.com:80"}}
PoolEnv == Env(PoolMsgs, PoolRequests, {"a.example.com"}, {}, {TRUE}, {TRUE})
InitPool == InitWith(Configs({FullSecurity}, 0..MaxCfg))
NextPool ==
  \/ ControlListener(Conns, PoolEnv, TRUE)
  \/ HttpListener(HConns, PoolEnv, TRUE)
SpecPool == InitPool /\ [][NextPool]_vars

\* The registry and the HTTP vhost dispatch: cleartext control sessions
\* asking for any tunnels, pipe handshakes for ClientID 1, HTTP connections
\* for any host, management queries for every tunnel and for one address,
\* and every failure on the HTTP and management connections.
RegMsgs == {m \in Msgs : \/ m.type = "PipeClientHello" /\ m.ClientID = 1
                         \/ /\ m.type = "ClientHello"
                            /\ m.EncryptMode = "none"
                            /\ ~m.EnableCompress}
RegEnv == Env(RegMsgs, TunnelRequests, Hosts, {"", "http://a.example.com:80"},
             {TRUE}, BOOLEAN)
InitReg == InitWith(Configs({FullSecurity}, {MaxCfg}))
NextReg ==
  \/ ControlListener(1..NSessions, RegEnv, TRUE)
  \/ HttpListener(1..NLookups, RegEnv, TRUE)
  \/ ManageListener(Queries, RegEnv, TRUE)
SpecReg == InitReg /\ [][NextReg]_vars

\* The two vhost listeners: cleartext control sessions asking for any
\* tunnel, pipe handshakes for ClientID 1, HTTP
\* and HTTPS connections for that host, and every failure of the sniff, the
\* certificate and the host rewrite.
VhostEnv == Env(RegMsgs, TunnelRequests, {"a.example.com"}, {}, {TRUE}, BOOLEAN)
NextVhost ==
  \/ ControlListener(1..NSessions, VhostEnv, TRUE)
  \/ HttpListener(1..NLookups, VhostEnv, TRUE)
  \/ HttpsListener(SConns, VhostEnv, TRUE)
SpecVhost == InitReg /\ [][NextVhost]_vars

\* The management query: cleartext control sessions owning up to MaxOwned
\* tunnels each, queries for every tunnel and for one address, and every
\* failure of reading the request and of serializing the response.
QueryRequests ==
  UNION {[T -> {""}] : T \in {S \in SUBSET Addrs : Cardinality(S) <= MaxOwned}}
QueryEnv == Env(RegMsgs, QueryRequests, {}, {"", "http://a.example.com:80"},
               {TRUE}, BOOLEAN)
NextQuery ==
  \/ ControlListener(1..NHandshake, QueryEnv, TRUE)
  \/ ManageListener(Queries, QueryEnv, TRUE)
SpecQuery == InitReg /\ [][NextQuery]_vars

\* The registry lock under every schedule: control sessions with the HTTP
\* tunnel (with a host rewrite) or the HTTPS tunnel of a.example.com, pipe
\* handshakes for ClientID 1, HTTP and HTTPS connections for that host and
\* queries for every tunnel.  SpecReaders has every failure on the vhost and
\* management connections.  SpecLock has none; there a connection may
\* stall for ever in any blocking call, a reader that is at its map read
\* goes on (the read does not block), and so does a writer once no reader
\* holds the lock.
LockRequests ==
  {r \in TunnelRequests :
     \/ DOMAIN r = {"http://a.example.com:80"}
        /\ r["http://a.example.com:80"] = "local.test"
     \/ DOMAIN r = {"https://a.example.com:443"}
        /\ r["https://a.example.com:443"] = ""}
ReadersEnv == Env(RegMsgs, LockRequests, {"a.example.com"}, {""}, {TRUE}, BOOLEAN)
NextReaders ==
  \/ ControlListener(1..NSessions, ReadersEnv, FALSE)
  \/ HttpListener(1..NLookups, ReadersEnv, FALSE)
  \/ HttpsListener(SConns, ReadersEnv, FALSE)
  \/ ManageListener(Queries, ReadersEnv, FALSE)
SpecReaders == InitReg /\ [][NextReaders]_vars

LockEnv == Env(RegMsgs, LockRequests, {"a.example.com"}, {""}, {TRUE}, {TRUE})
NextLock ==
  \/ ControlListener(1..NSessions, LockEnv, FALSE)
  \/ HttpListener(1..NLookups, LockEnv, FALSE)
  \/ HttpsListener(SConns, LockEnv, FALSE)
  \/ ManageListener(Queries, LockEnv, FALSE)
FairLock ==
  /\ \A h \in 1..NLookups : WF_vars(HLookup(h))
  /\ \A s \in SConns : WF_vars(HsLookup(s))
  /\ \A q \in Queries : WF_vars(QLookup(q)) /\ WF_vars(QRange(q))
  /\ \A c \in 1..NSessions :
       WF_vars(handleControl(c, LockEnv)) /\ WF_vars(Teardown(c))
SpecLock == InitReg /\ [][NextLock]_vars /\ FairLock

(* ---- the handshake of handleConn: C1 - C5 ------------------------------ *)
IsClientHello(c) == hello[c].type = "ClientHello"

\* The ClientHello read on c asks for tls without a certificate or key, or
\* for aes without a secret.
RequestsUnconfigured(c) ==
  /\ IsClientHello(c)
  /\ \/ /\ hello[c].EncryptMode = "tls"
        /\ serverConf.TlsCert = "" \/ serverConf.TlsKey = ""
     \/ /\ hello[c].EncryptMode = "aes"
        /\ serverConf.SecretKey = ""

\* The ClientHello read on c asks for a mode the server supports.
RequestsSupported(c) ==
  /\ IsClientHello(c)
  /\ hello[c].EncryptMode \in {"none", "tls", "aes"}
  /\ ~RequestsUnconfigured(c)

\* e precedes f in the calls made on c (both were made).
Before(c, e, f) ==
  /\ Has(events[c], e) /\ Has(events[c], f)
  /\ First(events[c], e) < First(events[c], f)

\* C1: a ClientHello for an unconfigured mode never gets a multiplexed
\* session, an accepted control stream or a call of handleControl, and its
\* connection is closed when handleConn returns.
C1_UnconfiguredModeNoSession ==
  \A c \in Conns :
    RequestsUnconfigured(c) =>
      /\ sess[c] = "none"
      /\ ~Has(events[c], "smux.Server")
      /\ ~Has(events[c], "AcceptStream")
      /\ ~Has(events[c], "handleControl")
      /\ pc[c] = "done" => ~connOpen[c]

\* C2: a ClientHello for a supported mode, with no failure, completes the
\* handshake: one ServerHello and no Error, then one server-role session,
\* then one accepted stream, then one call of handleControl with it.
C2_SupportedModeCompletes ==
  \A c \in Conns :
    RequestsSupported(c) =>
      /\ Count(events[c], "smux.Server") <= 1
      /\ Count(events[c], "AcceptStream") <= 1
      /\ Count(events[c], "handleControl") <= 1
      /\ (pc[c] \in {"serve", "teardown", "done"} /\ ~failed[c]) =>
           /\ sent[c] = <<"ServerHello">>
           /\ Count(events[c], "smux.Server") = 1
           /\ Count(events[c], "AcceptStream") = 1
           /\ Count(events[c], "handleControl") = 1
           /\ Before(c, "ServerHello", "smux.Server")
           /\ Before(c, "smux.Server", "AcceptStream")
           /\ Before(c, "AcceptStream", "handleControl")

\* C2 witness: an encrypted, compressed control session has been set up
\* and has ended without any failure.
C2_Witness ==
  \E c \in Conns :
    /\ RequestsSupported(c)
    /\ hello[c].EncryptMode = "aes" /\ hello[c].EnableCompress
    /\ pc[c] = "done" /\ ~failed[c]

\* C3: the reply to a ClientHello is an Error or a ServerHello and never
\* both, and a ServerHello is written only for a mode the server accepts.
C3_ErrorOrServerHello ==
  \A c \in Conns :
    /\ ~(Has(sent[c], "Error") /\ Has(sent[c], "ServerHello"))
    /\ Has(sent[c], "ServerHello") => RequestsSupported(c)

\* C4: every execution of handleConn in which a stage failed ends with the
\* raw connection closed.
C4_FailureClosesConn ==
  \A c \in Conns : (pc[c] = "done" /\ failed[c]) => ~connOpen[c]

\* C5: a transform or a multiplexed session exists on a connection only
\* after the ServerHello was written on it.
C5_ServerHelloFirst ==
  \A c \in Conns :
    \A e \in {"tls", "aes", "comp", "smux.Server"} :
      Has(events[c], e) => Before(c, "ServerHello", e)

(* ---- pipes and pools: C6 - C8 ------------------------------------------ *)
\* The limits as configured.
CfgMaxIdlePipes == ParseUint(serverConf.MaxIdlePipes)
CfgMaxStreams == ParseUint(serverConf.MaxStreams)

\* handleConn handles the pipe handshake of connection c in this step.
PipeStep(c) == pc[c] = "pipe" /\ pc'[c] = "done"

\* The pipe handshake of c is rejected: the connection is closed and no
\* pool changes.
PipeRejected(c) == ~connOpen'[c] /\ pipes' = pipes

\* The Pipe of c goes to session s and to no other pool.
PipeOf(c, s) ==
  /\ pipes'[c].ctl = s
  /\ \A p \in Conns \ {c} : pipes'[p] = pipes[p]

\* C6 as claimed: a pipe handshake for a ClientID with no live session is
\* rejected and closed; one for a live session (whose transform and session
\* set-up succeed) leaves its Pipe open in that session's pool.
C6_PipeAlwaysPooled ==
  [][\A c \in Conns :
       PipeStep(c) =>
         IF hello[c].ClientID \notin ControlMap THEN PipeRejected(c)
         ELSE ~failed'[c] =>
                /\ PipeOf(c, hello[c].ClientID)
                /\ pipes'[c].state = "idle" /\ connOpen'[c]]_vars

\* C6 amended: a pipe handshake for a ClientID with no live session, or
\* whose transform or session set-up fails, is rejected and closed; any
\* other yields a Pipe of that session only, pooled as idle when the session
\* holds fewer than max_idle_pipes idle Pipes and closed at once otherwise.
C6_PipeHandshake ==
  [][\A c \in Conns :
       PipeStep(c) =>
         IF hello[c].ClientID \notin ControlMap \/ failed'[c]
         THEN PipeRejected(c)
         ELSE /\ PipeOf(c, hello[c].ClientID)
              /\ IF Cardinality(IdlePipes(pipes, hello[c].ClientID))
                      < CfgMaxIdlePipes
                 THEN pipes'[c].state = "idle" /\ connOpen'[c]
                 ELSE pipes'[c].state = "closed" /\ ~connOpen'[c]]_vars

\* C6 witness: one pipe handshake was rejected for the unknown ClientID 0
\* and another left an idle Pipe in the pool of a live session.
C6_Witness ==
  \E c, d \in Conns :
    /\ pipes[c].state = "idle" /\ pipes[c].ctl \in ControlMap /\ connOpen[c]
    /\ hello[d].type = "PipeClientHello" /\ hello[d].ClientID = 0
    /\ pc[d] = "done" /\ ~connOpen[d]

\* No HTTP connection was ever given a work stream.
NoStreamYet == \A h \in HConns : ~Has(hevents[h], "stream")

PipesOf(s) == {p \in Conns : pipes[p].ctl = s}

\* C7: no session holds more than the configured max_idle_pipes idle Pipes,
\* and of the Pipes registered for a live session, before any is given a
\* stream, exactly max_idle_pipes are retained (when that many came) and
\* the rest are closed.
C7_IdlePipesBounded ==
  \A s \in Conns :
    /\ Cardinality(IdlePipes(pipes, s)) <= CfgMaxIdlePipes
    /\ (s \in ControlMap /\ NoStreamYet) =>
         /\ Cardinality(PipesOf(s)) >= CfgMaxIdlePipes =>
              Cardinality(IdlePipes(pipes, s)) = CfgMaxIdlePipes
         /\ \A p \in PipesOf(s) \ IdlePipes(pipes, s) :
              pipes[p].state = "closed" /\ ~connOpen[p]

\* C7 witness: a live session holds max_idle_pipes idle Pipes, at least
\* one, and a further Pipe registered for it was closed.
C7_Witness ==
  \E s \in ControlMap :
    /\ NoStreamYet
    /\ CfgMaxIdlePipes >= 1
    /\ Cardinality(IdlePipes(pipes, s)) = CfgMaxIdlePipes
    /\ \E p \in PipesOf(s) : pipes[p].state = "closed"

\* The work streams open on Pipe p: the HTTP and HTTPS connections being
\* relayed over it.
StreamsOn(p) ==
  {<<"http", h>> : h \in {i \in HConns : hpc[i] = "pump" /\ hstream[i] = p}}
    \cup {<<"https", s>> : s \in {i \in SConns : spc[i] = "pump" /\ sstream[i] = p}}

StreamsBounded ==
  \A p \in Conns :
    Pooled(pipes[p]) =>
      /\ pipes[p].streams = Cardinality(StreamsOn(p))
      /\ Cardinality(StreamsOn(p)) <= CfgMaxStreams

\* The Pipes of live session s that carry fewer than max_streams streams.
Unsaturated(s) ==
  {p \in PipesOf(s) : /\ s \in ControlMap
                      /\ Pooled(pipes[p])
                      /\ Cardinality(StreamsOn(p)) < CfgMaxStreams}

\* C8: no pooled Pipe carries more than the configured max_streams work
\* streams; an allocation takes a Pipe of the session that carries fewer,
\* and with none it fails in the same step, leaving every Pipe as it was.
C8_StreamsBounded ==
  [][/\ StreamsBounded'
     /\ \A h \in HConns :
          (hpc[h] = "proxy" /\ hpc'[h] # "proxy") =>
            IF Unsaturated(htunnel[h].tunnel.ctl) = {}
            THEN hpc'[h] = "done" /\ hstream'[h] = 0 /\ pipes' = pipes
            ELSE /\ hpc'[h] = "pump"
                 /\ hstream'[h] \in Unsaturated(htunnel[h].tunnel.ctl)]_vars

\* C8 witness: a Pipe carries max_streams streams, at least one, and an
\* allocation for its session has failed.
C8_Witness ==
  \E p \in Conns, h \in HConns :
    /\ Pooled(pipes[p])
    /\ CfgMaxStreams >= 1
    /\ Cardinality(StreamsOn(p)) = CfgMaxStreams
    /\ \A q \in PipesOf(pipes[p].ctl) \ {p} : ~Pooled(pipes[q])
    /\ hpc[h] = "done" /\ htunnel[h].tunnel.ctl = pipes[p].ctl
    /\ Has(hevents[h], "proxyConn") /\ ~Has(hevents[h], "stream")

(* ---- the registry and HTTP dispatch: C9 - C10 ------------------------- *)
\* The control sessions that registered public address a and whose teardown
\* has not completed.
LiveOwners(a) ==
  {c \in Conns : pc[c] \in {"serve", "teardown"} /\ a \in owned[c]}

\* The public address of an HTTP tunnel for host on the HTTP listener.
PublicHttpAddr(host) ==
  "http://" \o host \o ":" \o ToString(serverConf.HttpPort)

\* The registry holds exactly the addresses of the live owners.
RegistryIsLiveOwners ==
  \A a \in Addrs :
    /\ a \in DOMAIN TunnelMap <=> LiveOwners(a) # {}
    /\ a \in DOMAIN TunnelMap => LiveOwners(a) = {TunnelMap[a].ctl}

Sniffed(h) == Has(hevents[h], "sniffed")
Proxied(h) == Has(hevents[h], "proxyConn")
GatewayError(h) == Has(hevents[h], "BadGateWayResp")

\* The lookup of h reads the registry under the key of its sniffed host.
LookupReadsRegistry ==
  \A h \in HConns :
    (hpc[h] = "lookup" /\ hpc'[h] # "lookup") =>
      IF PublicHttpAddr(hinfo[h]) \in DOMAIN TunnelMap
      THEN /\ htunnel'[h].isok
           /\ htunnel'[h].tunnel = TunnelMap[PublicHttpAddr(hinfo[h])]
      ELSE ~htunnel'[h].isok

\* The work stream of h is on a Pipe of the Tunnel's control session.
PumpOnOwner ==
  \A h \in HConns :
    hpc'[h] = "pump" => pipes'[hstream'[h]].ctl = htunnel'[h].tunnel.ctl

\* C10 as claimed: a sniffed HTTP connection is handed to the Proxy Pump if
\* the registry held a Tunnel for its host at the lookup, and is written
\* the gateway error otherwise: one of the two, never both, never neither.
C10_ProxyOrGatewayError ==
  [][/\ LookupReadsRegistry
     /\ PumpOnOwner
     /\ \A h \in HConns :
          (hpc'[h] = "done" /\ Sniffed(h)') =>
            /\ htunnel'[h].isok => (Proxied(h)' /\ ~GatewayError(h)')
            /\ ~htunnel'[h].isok => (GatewayError(h)' /\ ~Proxied(h)')]_vars

\* C10 amended: as claimed, but when the Tunnel has a host rewrite the
\* stream is handed to the Proxy Pump only after the rewrite, and when the
\* rewrite fails the connection is closed with neither done.
C10_ProxyOrGatewayErrorOrRewriteFailure ==
  [][/\ LookupReadsRegistry
     /\ PumpOnOwner
     /\ \A h \in HConns :
          (hpc'[h] = "done" /\ Sniffed(h)') =>
            /\ htunnel'[h].isok =>
                 /\ ~GatewayError(h)'
                 /\ IF htunnel'[h].tunnel.HttpHostRewrite = ""
                    THEN Proxied(h)'
                    ELSE Proxied(h)' <=> Has(hevents'[h], "HttpHostNameRewrite")
            /\ ~htunnel'[h].isok => (GatewayError(h)' /\ ~Proxied(h)')]_vars

\* C10 witness: one HTTP connection has been relayed for a Tunnel with a
\* host rewrite and has ended.
C10_Witness ==
  \E h \in HConns :
    /\ hpc[h] = "done" /\ htunnel[h].isok
    /\ htunnel[h].tunnel.HttpHostRewrite # ""
    /\ Has(hevents[h], "stream")

(* ---- the HTTPS vhost handler: C11 -------------------------------------- *)
SSniffed(s) == Has(sevents[s], "sniffed")
SProxied(s) == Has(sevents[s], "proxyConn")
SGatewayError(s) == Has(sevents[s], "BadGateWayResp")

\* handleHttpsConn has returned for a sniffed connection whose host matched
\* no Tunnel.
SMissed(s) == spc[s] = "done" /\ SSniffed(s) /\ ~stunnel[s].isok

\* C11 as claimed: every HTTPS connection whose sniff succeeded and whose
\* host matched no Tunnel has been written the gateway error before it was
\* closed.
C11_GatewayErrorOnMiss ==
  \A s \in SConns :
    SMissed(s) =>
      /\ SGatewayError(s)
      /\ First(sevents[s], "BadGateWayResp") < First(sevents[s], "conn.Close")

\* C11 amended: such a connection has been written the gateway error, on
\* the TLS connection and before it was closed, when the server's
\* certificate loaded; when it did not, the connection was closed with no
\* response and without the Proxy Pump.
C11_GatewayErrorOnMissUnlessCertFails ==
  \A s \in SConns :
    SMissed(s) =>
      /\ ~SProxied(s)
      /\ IF tlsConn[s] # <<>>
         THEN /\ SGatewayError(s)
              /\ First(sevents[s], "BadGateWayResp")
                   < First(sevents[s], "conn.Close")
         ELSE /\ ~SGatewayError(s)
              /\ Has(sevents[s], "server error cert")
      /\ ~sconnOpen[s]

\* C11 witness: an HTTPS connection for an unregistered host was written
\* the gateway error and closed.
C11_Witness ==
  \E s \in SConns : SMissed(s) /\ SGatewayError(s) /\ ~sconnOpen[s]

(* ---- the management query: C12, C13, C16 ------------------------------- *)
\* The public addresses of the Tunnels in the registry.
RegisteredAddrs(map) == {map[a].addr : a \in DOMAIN map}

\* C12: a query with a RemoteAddr reads exactly that address when the
\* registry holds a Tunnel under it and nothing otherwise; a query without
\* one has read, when its loop ends, the public address of every Tunnel in
\* the registry; and a response served with status 200 carries what was
\* read.
C12_QueryReturnsRegistry ==
  [][\A q \in Queries :
       /\ (qpc[q] = "lookup" /\ qpc'[q] = "respond") =>
            /\ qreq[q] # ""
            /\ Cardinality(qresp'[q].Tunnels) <= 1
            /\ qresp'[q].Tunnels =
                 (IF qreq[q] \in DOMAIN TunnelMap THEN {qreq[q]} ELSE {})
       /\ (qpc[q] = "range" /\ qpc'[q] = "respond") =>
            /\ qreq[q] = ""
            /\ qresp'[q].Tunnels = RegisteredAddrs(TunnelMap)
       /\ (qpc[q] = "respond" /\ qresp'[q].status = <<200>>) =>
            qresp'[q].Tunnels = qresp[q].Tunnels]_vars

\* C12 witness: a query without RemoteAddr was answered with two addresses
\* that are in the registry.
C12_Witness ==
  \E q \in Queries :
    /\ qpc[q] = "done" /\ qreq[q] = "" /\ qresp[q].status = <<200>>
    /\ Cardinality(qresp[q].Tunnels) = 2
    /\ qresp[q].Tunnels = RegisteredAddrs(TunnelMap)

\* C13: every answered request was given exactly one status: 400 without
\* the registry having been read, or 500, or 200.
C13_OneStatusPerRequest ==
  \A q \in Queries :
    qpc[q] = "done" =>
      /\ Len(qresp[q].status) = 1
      /\ qresp[q].status[1] \in {200, 400, 500}
      /\ qresp[q].status[1] = 400 => (qiter[q] = {} /\ qresp[q].Tunnels = {})

\* The control sessions whose Tunnels are in the registry.
LiveSessions == {c \in Conns : pc[c] \in {"serve", "teardown"}}

\* C16: when the loop of a query over all tunnels ends, it has read every
\* public address of each session that is registered and none of any
\* session that is not: of no session a strict non-empty subset.
C16_AllOrNoneOfASession ==
  [][\A q \in Queries :
       (qpc[q] = "range" /\ qpc'[q] = "respond") =>
         /\ \A c \in LiveSessions : owned[c] \subseteq qresp'[q].Tunnels
         /\ qresp'[q].Tunnels \subseteq UNION {owned[c] : c \in LiveSessions}]_vars

\* C16 witness: a query has read one of the two addresses of a session
\* whose teardown is waiting for the registry.
C16_Witness ==
  \E q \in Queries, c \in Conns :
    /\ qpc[q] = "range" /\ Cardinality(qresp[q].Tunnels) = 1
    /\ pc[c] = "teardown" /\ Cardinality(owned[c]) = 2
    /\ qresp[q].Tunnels \subseteq owned[c]

(* ---- the vhost handlers: C14, C15, C19 --------------------------------- *)
\* In events es, the first e comes before the first f.
Precedes(es, e, f) == Has(es, e) /\ Has(es, f) /\ First(es, e) < First(es, f)

\* C14: in both vhost handlers the deadline is armed before the sniff and
\* as long as no Tunnel has matched, and is cleared before the Proxy Pump is
\* called, which never runs with the deadline armed.
C14_DeadlineArmedUntilMatch ==
  /\ \A h \in HConns :
       /\ hpc[h] = "sniff" => hdeadline[h]
       /\ Sniffed(h) => Precedes(hevents[h], "SetDeadline", "sniffed")
       /\ (hpc[h] # "idle" /\ ~htunnel[h].isok) =>
            hdeadline[h] /\ ~Has(hevents[h], "ClearDeadline")
       /\ Proxied(h) =>
            ~hdeadline[h] /\ Precedes(hevents[h], "ClearDeadline", "proxyConn")
       /\ hpc[h] = "pump" => ~hdeadline[h]
  /\ \A s \in SConns :
       /\ spc[s] = "sniff" => sdeadline[s]
       /\ SSniffed(s) => Precedes(sevents[s], "SetDeadline", "sniffed")
       /\ (spc[s] # "idle" /\ ~stunnel[s].isok) =>
            sdeadline[s] /\ ~Has(sevents[s], "ClearDeadline")
       /\ SProxied(s) =>
            ~sdeadline[s] /\ Precedes(sevents[s], "ClearDeadline", "proxyConn")
       /\ spc[s] = "pump" => ~sdeadline[s]

\* C14 witness: an HTTPS connection is being relayed with its deadline
\* cleared, and an HTTP connection that matched no Tunnel has ended with
\* its deadline armed.
C14_Witness ==
  \E s \in SConns, h \in HConns :
    /\ spc[s] = "pump" /\ ~sdeadline[s]
    /\ hpc[h] = "done" /\ GatewayError(h) /\ hdeadline[h]

\* The last event of es is e.
EndsWith(es, e) == Len(es) > 0 /\ es[Len(es)] = e

\* C15: a vhost handler that has returned has closed the external
\* connection, as the last thing it did; after a failed sniff it has
\* neither read the registry nor written a response nor called the Proxy
\* Pump.
C15_ReturnClosesConn ==
  /\ \A h \in HConns :
       hpc[h] = "done" =>
         /\ ~hconnOpen[h] /\ EndsWith(hevents[h], "conn.Close")
         /\ Count(hevents[h], "conn.Close") = 1
         /\ ~Sniffed(h) =>
              ~Has(hevents[h], "lookup") /\ ~GatewayError(h) /\ ~Proxied(h)
  /\ \A s \in SConns :
       spc[s] = "done" =>
         /\ ~sconnOpen[s] /\ EndsWith(sevents[s], "conn.Close")
         /\ Count(sevents[s], "conn.Close") = 1
         /\ ~SSniffed(s) =>
              ~Has(sevents[s], "lookup") /\ ~SGatewayError(s) /\ ~SProxied(s)

\* C15 witness: an HTTPS handler has returned on a certificate that did
\* not load, and an HTTP handler after relaying; both connections are
\* closed.
C15_Witness ==
  \E s \in SConns, h \in HConns :
    /\ spc[s] = "done" /\ Has(sevents[s], "server error cert") /\ ~sconnOpen[s]
    /\ hpc[h] = "done" /\ Has(hevents[h], "stream") /\ ~hconnOpen[h]

\* The public address of an HTTPS tunnel for host on the HTTPS listener.
PublicHttpsAddr(host) ==
  "https://" \o host \o ":" \o ToString(serverConf.HttpsPort)

\* C19: the Proxy Pump is called for an HTTP connection only with a Tunnel
\* registered under http://, the sniffed host and the HTTP port, for an
\* HTTPS connection only with one registered under https://, the sniffed
\* host and the HTTPS port, and then with the TLS-terminated stream.
C19_SchemeAndPortIsolated ==
  /\ \A h \in HConns :
       Proxied(h) =>
         /\ htunnel[h].isok
         /\ htunnel[h].tunnel.addr = PublicHttpAddr(hinfo[h])
         /\ htunnel[h].tunnel.addr # PublicHttpsAddr(hinfo[h])
  /\ \A s \in SConns :
       SProxied(s) =>
         /\ stunnel[s].isok
         /\ stunnel[s].tunnel.addr = PublicHttpsAddr(sinfo[s])
         /\ stunnel[s].tunnel.addr # PublicHttpAddr(sinfo[s])
         /\ sproxied[s] = <<"sconn", "tls">>

\* C19 witness: with only the HTTPS tunnel of a host registered, an HTTPS
\* connection for the host is being relayed and an HTTP connection for the
\* same host is at its lookup.
C19_Witness ==
  \E s \in SConns, h \in HConns :
    /\ spc[s] = "pump" /\ sproxied[s] = <<"sconn", "tls">>
    /\ hpc[h] = "lookup" /\ hinfo[h] = sinfo[s]
    /\ PublicHttpsAddr(sinfo[s]) \in DOMAIN TunnelMap
    /\ PublicHttpAddr(hinfo[h]) \notin DOMAIN TunnelMap

(* ---- handleControl: C17 ------------------------------------------------ *)
\* C17: ctl.Serve is entered only after handleControl was called and its
\* handshake succeeded, with the session open while it runs; a failed
\* handshake closes the control stream and never enters ctl.Serve; and once
\* handleControl has returned the multiplexed session is closed.
C17_ServeOnlyAfterHandshake ==
  \A c \in Conns :
    /\ Has(events[c], "ctl.Serve") =>
         /\ Precedes(events[c], "handleControl", "ctl.Serve")
         /\ Precedes(events[c], "smux.Server", "handleControl")
         /\ ~Has(events[c], "stream.Close")
    /\ pc[c] = "serve" => (sess[c] = "open" /\ c \in ControlMap)
    /\ Has(events[c], "stream.Close") =>
         /\ ~Has(events[c], "ctl.Serve")
         /\ Precedes(events[c], "handleControl", "stream.Close")
    /\ (pc[c] = "done" /\ Has(events[c], "handleControl")) =>
         /\ sess[c] = "closed"
         /\ Has(events[c], "sess.Close")
         /\ c \notin ControlMap

\* C17 witness: ctl.Serve has run and ended, handleControl has returned and
\* the session is closed.
C17_Witness ==
  \E c \in Conns :
    /\ pc[c] = "done" /\ Has(events[c], "ctl.Serve")
    /\ sess[c] = "closed"

(* ---- the registry lock: C18, C20 --------------------------------------- *)
\* The goroutine g is at its read of the registry: after RLock() and before
\* RUnlock().
AtMapRead(g) ==
  \/ g[1] = "http" /\ hpc[g[2]] = "lookup"
  \/ g[1] = "https" /\ spc[g[2]] = "lookup"
  \/ g[1] = "query" /\ qpc[g[2]] \in {"lookup", "range"}

\* The read lock is held only across the map read.
LockOnlyAcrossRead == \A g \in TunnelMapLock : AtMapRead(g)

\* A step of a registry reader: a vhost handler or a management query.
ReaderStep == hpc' # hpc \/ spc' # spc \/ qpc' # qpc

\* g holds the read lock before the step and not after it.
Unlocks(g) == g \in TunnelMapLock /\ g \notin TunnelMapLock'

\* C18: no step of a reader changes the registry; a reader takes what it
\* reads from the registry with the read lock held, which its map read
\* ends by releasing; and a reader that has returned does not hold the
\* lock.
C18_ReadersUnderReadLock ==
  [][/\ ReaderStep => TunnelMap' = TunnelMap
     /\ \A h \in HConns :
          /\ (hpc[h] = "lookup" /\ hpc'[h] # "lookup") => Unlocks(<<"http", h>>)
          /\ htunnel'[h] # htunnel[h] => hpc[h] = "lookup"
          /\ hpc'[h] = "done" => <<"http", h>> \notin TunnelMapLock'
     /\ \A s \in SConns :
          /\ (spc[s] = "lookup" /\ spc'[s] # "lookup") => Unlocks(<<"https", s>>)
          /\ stunnel'[s] # stunnel[s] => spc[s] = "lookup"
          /\ spc'[s] = "done" => <<"https", s>> \notin TunnelMapLock'
     /\ \A q \in Queries :
          /\ (qpc[q] \in {"lookup", "range"} /\ qpc'[q] = "respond") =>
               Unlocks(<<"query", q>>)
          /\ (qpc[q] = "range" /\ qpc'[q] = "range") =>
               <<"query", q>> \in TunnelMapLock
          /\ qpc'[q] = "done" => <<"query", q>> \notin TunnelMapLock']_vars

\* C18 witness: with a Tunnel registered, an HTTP handler, an HTTPS handler
\* and a management query have read the registry and returned, and the
\* lock is free.
C18_Witness ==
  \E h \in HConns, s \in SConns, q \in Queries :
    /\ hpc[h] = "done" /\ Has(hevents[h], "lookup")
    /\ spc[s] = "done" /\ Has(sevents[s], "lookup")
    /\ qpc[q] = "done" /\ qresp[q].status = <<200>> /\ qresp[q].Tunnels # {}
    /\ DOMAIN TunnelMap # {}
    /\ TunnelMapLock = {}

\* C20: a vhost handler or management query holds the read lock only
\* across its map read, and with connections stalling wherever they block
\* every teardown and every registration that waits for the registry goes
\* on.
C20_WritersProceed ==
  /\ []LockOnlyAcrossRead
  /\ \A c \in 1..NSessions :
       /\ (pc[c] = "teardown") ~> (pc[c] = "done")
       /\ (pc[c] = "control") ~> (pc[c] # "control")

\* C20 witness: a teardown is waiting for an HTTPS handler at its map read
\* while an HTTP connection is being relayed.
C20_Witness ==
  \E c \in Conns, s \in SConns, h \in HConns :
    /\ pc[c] = "teardown" /\ owned[c] # {}
    /\ <<"https", s>> \in TunnelMapLock
    /\ hpc[h] = "pump"

====
